---- MODULE Spec2Model ----
(***************************************************************************)
(* Model of the keyvalues-serde encoder (keyvalues-serde/src/ser.rs):      *)
(* a host value is walked by the serde protocol, the Serializer turns      *)
(* every call into NaiveTokens, _to_writer overrides the root key, hands   *)
(* the token stream to Vdf::try_from and renders the Vdf into the writer.  *)
(***************************************************************************)
EXTENDS Integers, Sequences, FiniteSets, TLC

(***************************************************************************)
(* Bounds of the model.                                                    *)
(***************************************************************************)
\* most elements of a sequence / tuple and most entries of a map
MaxLen == 2
\* most fields of a struct
MaxFields == 3

(***************************************************************************)
(* Text.  Rust's to_string() of integers, written out digit by digit.      *)
(***************************************************************************)
Digit(d) ==
    CASE d = 0 -> "0" [] d = 1 -> "1" [] d = 2 -> "2" [] d = 3 -> "3"
      [] d = 4 -> "4" [] d = 5 -> "5" [] d = 6 -> "6" [] d = 7 -> "7"
      [] d = 8 -> "8" [] d = 9 -> "9"

RECURSIVE NatText(_)
NatText(n) == IF n < 10 THEN Digit(n) ELSE NatText(n \div 10) \o Digit(n % 10)

IntText(n) == IF n < 0 THEN "-" \o NatText(0 - n) ELSE NatText(n)

(***************************************************************************)
(* Floats.  A float is nan, +-inf or the finite value m * 2^e (m an        *)
(* integer).  An f32 keeps F32MantBits bits of m and its magnitude stays   *)
(* below 2^F32MaxExp.                                                      *)
(***************************************************************************)
F32MantBits == 24
F32MaxExp == 128

Fin(m, e) == [cls |-> "finite", m |-> m, e |-> e]
Inf == [cls |-> "inf", m |-> 1, e |-> 0]
NaN == [cls |-> "nan", m |-> 0, e |-> 0]

RECURSIVE Pow2(_)
Pow2(k) == IF k = 0 THEN 1 ELSE 2 * Pow2(k - 1)

Abs(n) == IF n < 0 THEN 0 - n ELSE n

RECURSIVE BitLen(_)
BitLen(n) == IF n = 0 THEN 0 ELSE 1 + BitLen(n \div 2)

\* m / 2^k rounded to the nearest integer, ties to even (m >= 0)
RoundShift(m, k) ==
    LET q == m \div Pow2(k)
        r == m % Pow2(k)
        half == Pow2(k) \div 2
    IN  IF k = 0 THEN m
        ELSE IF r > half \/ (r = half /\ q % 2 = 1) THEN q + 1 ELSE q

\* the finite value with the even factors of m moved into the exponent
RECURSIVE Canon(_)
Canon(f) ==
    IF f.cls # "finite" THEN f
    ELSE IF f.m = 0 THEN Fin(0, 0)
    ELSE IF f.m % 2 = 0 THEN Canon(Fin(f.m \div 2, f.e + 1))
    ELSE f

\* `v as f32` for an f64 v: round to 24 bits, overflow to infinity
NarrowToF32(f) ==
    IF f.cls # "finite" THEN f
    ELSE LET a == Abs(f.m)
             k == IF BitLen(a) > F32MantBits THEN BitLen(a) - F32MantBits ELSE 0
             r == RoundShift(a, k)
             sgn == IF f.m < 0 THEN 0 - 1 ELSE 1
         IN  IF BitLen(r) + f.e + k > F32MaxExp
             THEN [cls |-> "inf", m |-> sgn, e |-> 0]
             ELSE Canon(Fin(sgn * r, f.e + k))

is_finite(f) == f.cls = "finite"

\* to_string() of a finite float whose value is a multiple of 1/2
FloatText(f) ==
    LET c == Canon(f)
    IN  IF c.e >= 0 THEN IntText(c.m * Pow2(c.e))
        ELSE (IF c.m < 0 THEN "-" ELSE "") \o NatText(Abs(c.m) \div 2) \o ".5"

(***************************************************************************)
(* Host values: the shapes of the serde data model.                        *)
(***************************************************************************)
I8(n) == [shape |-> "i8", n |-> n]
I32(n) == [shape |-> "i32", n |-> n]
Bool(b) == [shape |-> "bool", b |-> b]
Char(c) == [shape |-> "char", s |-> c]
HStr(s) == [shape |-> "str", s |-> s]
F32(f) == [shape |-> "f32", f |-> f]
F64(f) == [shape |-> "f64", f |-> f]
Bytes == [shape |-> "bytes"]
None == [shape |-> "none"]
Some(v) == [shape |-> "some", inner |-> v]
Unit == [shape |-> "unit"]
UnitStruct == [shape |-> "unit_struct"]
UnitVariant(variant) == [shape |-> "unit_variant", s |-> variant]
NewtypeStruct(v) == [shape |-> "newtype_struct", inner |-> v]
NewtypeVariant(v) == [shape |-> "newtype_variant", inner |-> v]
SeqV(elems) == [shape |-> "seq", elems |-> elems]
Tuple(elems) == [shape |-> "tuple", elems |-> elems]
TupleStruct(elems) == [shape |-> "tuple_struct", elems |-> elems]
TupleVariant(elems) == [shape |-> "tuple_variant", elems |-> elems]
Map(entries) == [shape |-> "map", entries |-> entries]
Struct(name, fields) == [shape |-> "struct", name |-> name, fields |-> fields]
StructVariant(fields) == [shape |-> "struct_variant", fields |-> fields]

Field(key, val) == [fkey |-> key, val |-> val]
Entry(key, val) == [mkey |-> key, val |-> val]

(***************************************************************************)
(* The values the model encodes.                                           *)
(***************************************************************************)
\* all sequences over S of a length in lo..hi
Tup(S, lo, hi) == UNION {[1..n -> S] : n \in lo..hi}

FieldName(i) == CASE i = 1 -> "a" [] i = 2 -> "b" [] i = 3 -> "c" [] OTHER -> "d"

\* fields named by position
Fields(vals) == [i \in 1..Len(vals) |-> Field(FieldName(i), vals[i])]

Core ==
    { I32(1), I32(42), Bool(TRUE), Bool(FALSE), HStr("x"), HStr("y"), None, Bytes,
      F32(Fin(3, 0 - 1)), F64(Fin(16777217, 0)) }

\* the shapes the Serializer refuses
Refused ==
    { Bytes, Unit, UnitStruct, NewtypeVariant(I32(1)),
      TupleVariant(<<>>), TupleVariant(<<I32(1)>>),
      StructVariant(<<>>), StructVariant(Fields(<<I32(1)>>)) }

Leaves ==
    Core \cup Refused \cup
    { I8(0 - 7), I32(0), Char("c"),
      F32(Inf), F32(NaN), F64(Fin(3, 0 - 1)), F64(Fin(1, 128)), F64(Inf),
      UnitVariant("Foo") }

\* maps: distinct keys, in iteration order
Maps(K, V, n) ==
    { Map(es) : es \in { s \in Tup({Entry(k, v) : k \in K, v \in V}, 0, n) :
                           \A i, j \in 1..Len(s) : i # j => s[i].mkey # s[j].mkey } }

\* every compound shape over the children C (struct fields FC, map keys K)
Comp(C, FC, K, n, nm, nf) ==
    {Some(c) : c \in C} \cup {NewtypeStruct(c) : c \in C}
    \cup {SeqV(s) : s \in Tup(C, 0, n)}
    \cup {Tuple(s) : s \in Tup(C, 1, n)}
    \cup {TupleStruct(s) : s \in Tup(C, 1, n)}
    \cup {Struct("root", Fields(s)) : s \in Tup(FC, 0, nf)}
    \cup Maps(K, C, nm)

Shallow ==
    Leaves \cup Comp(Core, Core, {HStr("k"), I32(1), None}, MaxLen, MaxLen, MaxLen)

Inner(fs) == Struct("inner", Fields(fs))

\* children of the deeper values
\* the fields of the deeper structs
FieldKids ==
    { I32(1), None,
      SeqV(<<>>), SeqV(<<HStr("x"), HStr("y")>>), SeqV(<<Inner(<<HStr("x")>>)>>),
      Some(SeqV(<<>>)), Some(None), Inner(<<SeqV(<<HStr("x")>>)>>) }

Kids ==
    FieldKids \cup
    { HStr("x"), Tuple(<<I32(1)>>), Some(I32(1)), NewtypeStruct(None),
      Map(<<Entry(HStr("k"), None)>>) }

MapKeys ==
    { HStr("k"), SeqV(<<HStr("k")>>), Tuple(<<HStr("k")>>), Inner(<<>>),
      Map(<<>>), Some(HStr("k")), UnitVariant("Foo"), Bytes }

Deep ==
    Comp(Kids, FieldKids, MapKeys, MaxLen, 1, MaxFields)
    \cup {Struct("root", Fields(s)) : s \in Tup(Kids, 1, MaxLen)}

\* a refused shape or a non-finite float under every compound shape, one
\* and two levels down
Under1 ==
    Comp(Refused \cup {HStr("x"), F32(Inf)}, Refused \cup {HStr("x"), F32(Inf)},
         Refused \cup {HStr("k")}, MaxLen, 1, MaxLen)

Under2 ==
    UNION { { Some(Some(b)), NewtypeStruct(Tuple(<<b>>)), SeqV(<<Inner(<<b>>)>>),
              Struct("root", Fields(<<SeqV(<<b>>)>>)),
              Struct("root", Fields(<<Inner(<<HStr("x"), b>>)>>)),
              Map(<<Entry(HStr("k"), Some(b))>>),
              Map(<<Entry(Inner(<<b>>), HStr("x"))>>) } : b \in Refused }

\* a map under a struct, a sequence and a map, with every kind of key
Keyed ==
    UNION { { Struct("root", Fields(<<I32(1), Map(<<Entry(k, HStr("x"))>>)>>)),
              SeqV(<<Map(<<Entry(k, HStr("x"))>>)>>),
              Map(<<Entry(HStr("k"), Map(<<Entry(HStr("x"), I32(1)), Entry(k, HStr("x"))>>))>>) }
            : k \in MapKeys \cup {None, Some(None), F32(Inf), I32(1)} }

\* floats in a row: exact, rounded, too large for an f32 and not finite
FloatSeqs ==
    { SeqV(s) : s \in Tup({ F32(Fin(3, 0 - 1)), F64(Fin(16777217, 0)),
                            F64(Fin(0 - 16777219, 0)), F64(Fin(1, 128)),
                            F32(NaN), F64(Inf) }, 1, 2) }

Values == Shallow \cup Deep \cup Under1 \cup Under2 \cup Keyed \cup FloatSeqs

\* the optional root key of to_writer_with_key
NoKey == [some |-> FALSE, s |-> ""]
SomeKey(k) == [some |-> TRUE, s |-> k]
Keys == {NoKey, SomeKey("num"), SomeKey("k")}

(***************************************************************************)
(* NaiveToken and the errors of the two crates.                            *)
(***************************************************************************)
Str(s) == [t |-> "Str", s |-> s]
ObjBegin == [t |-> "ObjBegin"]
ObjEnd == [t |-> "ObjEnd"]
SeqBegin == [t |-> "SeqBegin"]
SeqEnd == [t |-> "SeqEnd"]
Null == [t |-> "Null"]

\* TokenContext without its ExpectedSomeVal
TokenContext_NoSomeVal ==
    { "EofWhileParsingKey", "EofWhileParsingVal", "EofWhileParsingSeq",
      "EofWhileParsingObj", "ExpectedNonSeqVal", "TrailingTokens" }

TokenContext ==
    { "EofWhileParsingKey", "EofWhileParsingVal", "EofWhileParsingSeq",
      "EofWhileParsingObj", "ExpectedSomeVal", "ExpectedNonSeqVal",
      "TrailingTokens" }

Pending == [kind |-> "Pending"]
Ok == [kind |-> "Ok"]
Unsupported(what) == [kind |-> "Unsupported", what |-> what]
NonFiniteFloat(f) == [kind |-> "NonFiniteFloat", f |-> f]
\* the conversion from TokenContext losing the context
InvalidTokenStream_NoContext(ctx) == [kind |-> "InvalidTokenStream", ctx |-> "ExpectedSomeVal"]

InvalidTokenStream(ctx) == [kind |-> "InvalidTokenStream", ctx |-> ctx]

\* what a Serializer method leaves behind: the token stream and Ok or Err
Ret(toks, res) == [tokens |-> toks, res |-> res]

(***************************************************************************)
(* Vdf::try_from(&NaiveTokenStream), the Stream-to-AST Builder.  A Value   *)
(* is a Scalar or a Group of (key, value) entries in order.                *)
(***************************************************************************)
Scalar(s) == [kind |-> "Scalar", s |-> s]
Group(entries) == [kind |-> "Group", entries |-> entries]
KV(key, v) == [key |-> key, value |-> v]

\* what a context hands back: an error or the entries built and the
\* position of the next token
Fail(ctx) == [err |-> ctx, entries |-> <<>>, pos |-> 0]
Built(entries, pos) == [err |-> "", entries |-> entries, pos |-> pos]

RECURSIVE AwaitValue(_, _, _, _), GroupCtx(_, _, _), SeqCtx(_, _, _, _)

\* a Group: key, value, key, value ... until its ObjEnd
GroupCtx(toks, pos, acc) ==
    IF pos > Len(toks) THEN Fail("EofWhileParsingObj")
    ELSE IF toks[pos].t = "ObjEnd" THEN Built(acc, pos + 1)
    ELSE IF toks[pos].t = "Str"
    THEN LET r == AwaitValue(toks, pos + 1, toks[pos].s, TRUE)
         IN  IF r.err # "" THEN r ELSE GroupCtx(toks, r.pos, acc \o r.entries)
    ELSE Fail("ExpectedSomeVal")

\* a Seq bound to key: every element becomes an entry (key, element)
SeqCtx(toks, pos, key, acc) ==
    IF pos > Len(toks) THEN Fail("EofWhileParsingSeq")
    ELSE IF toks[pos].t = "SeqEnd" THEN Built(acc, pos + 1)
    ELSE IF toks[pos].t = "Str"
    THEN SeqCtx(toks, pos + 1, key, Append(acc, KV(key, Scalar(toks[pos].s))))
    ELSE IF toks[pos].t = "ObjBegin"
    THEN LET r == GroupCtx(toks, pos + 1, <<>>)
         IN  IF r.err # "" THEN r
             ELSE SeqCtx(toks, r.pos, key, Append(acc, KV(key, Group(r.entries))))
    ELSE IF toks[pos].t = "SeqBegin" THEN Fail("ExpectedNonSeqVal")
    ELSE Fail("ExpectedSomeVal")

\* the value bound to key; a Null is tolerated inside a Group only
AwaitValue(toks, pos, key, inGroup) ==
    IF pos > Len(toks) THEN Fail("EofWhileParsingVal")
    ELSE IF toks[pos].t = "Str"
    THEN Built(<<KV(key, Scalar(toks[pos].s))>>, pos + 1)
    ELSE IF toks[pos].t = "ObjBegin"
    THEN LET r == GroupCtx(toks, pos + 1, <<>>)
         IN  IF r.err # "" THEN r
             ELSE Built(<<KV(key, Group(r.entries))>>, r.pos)
    ELSE IF toks[pos].t = "SeqBegin" THEN SeqCtx(toks, pos + 1, key, <<>>)
    ELSE IF toks[pos].t = "Null" /\ inGroup THEN Built(<<>>, pos + 1)
    ELSE Fail("ExpectedSomeVal")

NoVdf == [built |-> FALSE]
Vdf(key, v) == [built |-> TRUE, key |-> key, value |-> v]

BuildErr(ctx) == [err |-> ctx, vdf |-> NoVdf]
BuildOk(doc) == [err |-> "", vdf |-> doc]

\* the Builder stopping at the end of the value region, whatever follows
Build_TrailingIgnored(toks) ==
    IF toks = <<>> THEN BuildErr("EofWhileParsingKey")
    ELSE IF toks[1].t # "Str" THEN BuildErr("ExpectedSomeVal")
    ELSE LET r == AwaitValue(toks, 2, toks[1].s, FALSE)
         IN  IF r.err # "" THEN BuildErr(r.err)
             ELSE IF toks[2].t = "SeqBegin"
             THEN BuildOk(Vdf(toks[1].s, Group(r.entries)))
             ELSE BuildOk(Vdf(toks[1].s, r.entries[1].value))

\* the root key, its one value region, and nothing after it
Build(toks) ==
    IF toks = <<>> THEN BuildErr("EofWhileParsingKey")
    ELSE IF toks[1].t # "Str" THEN BuildErr("ExpectedSomeVal")
    ELSE LET r == AwaitValue(toks, 2, toks[1].s, FALSE)
         IN  IF r.err # "" THEN BuildErr(r.err)
             ELSE IF r.pos <= Len(toks) THEN BuildErr("TrailingTokens")
             ELSE IF toks[2].t = "SeqBegin"
             THEN BuildOk(Vdf(toks[1].s, Group(r.entries)))
             ELSE BuildOk(Vdf(toks[1].s, r.entries[1].value))

(***************************************************************************)
(* impl ser::Serializer for &mut Serializer: each method as a function of  *)
(* the token stream it is called on.                                       *)
(***************************************************************************)
\* serialize_str putting its token first
serialize_str_AtFront(toks, v) == Ret(<<Str(v)>> \o toks, Ok)

serialize_str(toks, v) == Ret(Append(toks, Str(v)), Ok)

\* forward_serialize_as_str!: self.serialize_str(&v.to_string())
forward_serialize_as_str(toks, n) == serialize_str(toks, IntText(n))

serialize_i8(toks, n) == forward_serialize_as_str(toks, n)

serialize_i32(toks, n) == forward_serialize_as_str(toks, n)

serialize_char(toks, c) == serialize_str(toks, c)

\* serialize_bool through v.to_string() instead of v as i8
serialize_bool_AsWord(toks, b) == serialize_str(toks, IF b THEN "true" ELSE "false")

serialize_bool(toks, b) == serialize_i8(toks, IF b THEN 1 ELSE 0)

\* serialize_f32 without its is_finite() test
serialize_f32_Unchecked(toks, f) ==
    serialize_str(toks, IF is_finite(f) THEN FloatText(f) ELSE f.cls)

serialize_f32(toks, f) ==
    IF is_finite(f) THEN serialize_str(toks, FloatText(f))
    ELSE Ret(toks, NonFiniteFloat(f))

serialize_f64(toks, f) == serialize_f32(toks, NarrowToF32(f))

\* serialize_bytes accepting the bytes as an empty string
serialize_bytes_Accepted(toks) == serialize_str(toks, "")

serialize_bytes(toks) == Ret(toks, Unsupported("Bytes"))

\* serialize_none writing an empty string instead of Null
serialize_none_AsEmptyStr(toks) == serialize_str(toks, "")

\* serialize_none pushing nothing
serialize_none_NoToken(toks) == Ret(toks, Ok)

serialize_none(toks) == Ret(Append(toks, Null), Ok)

serialize_unit(toks) == Ret(toks, Unsupported("Unit Type"))

serialize_unit_struct(toks) == Ret(toks, Unsupported("Unit Struct"))

serialize_unit_variant(toks, variant) == serialize_str(toks, variant)

serialize_newtype_variant(toks) == Ret(toks, Unsupported("Enum Newtype Variant"))

serialize_seq(toks) == Ret(Append(toks, SeqBegin), Ok)

serialize_tuple(toks) == serialize_seq(toks)

serialize_tuple_struct(toks) == serialize_tuple(toks)

serialize_tuple_variant(toks) == Ret(toks, Ok)

\* a map begun as a sequence of its keys and values
serialize_map_AsSeq(toks) == Ret(Append(toks, SeqBegin), Ok)

serialize_map(toks) == Ret(Append(toks, ObjBegin), Ok)

\* serialize_struct never pushing the name
serialize_struct_Unnamed(toks, name) == Ret(Append(toks, ObjBegin), Ok)

\* serialize_struct without the is_empty() test
serialize_struct_AlwaysNamed(toks, name) ==
    serialize_map(serialize_str(toks, name).tokens)

serialize_struct(toks, name) ==
    IF toks = <<>> THEN serialize_map(serialize_str(toks, name).tokens)
    ELSE serialize_map(toks)

serialize_struct_variant(toks) == Ret(toks, Ok)

\* the end() of SerializeSeq, SerializeTuple and SerializeTupleStruct
SerializeSeq_end(toks) == Ret(Append(toks, SeqEnd), Ok)

SerializeTuple_end(toks) == Ret(Append(toks, SeqEnd), Ok)

\* a tuple struct closed as an object
SerializeTupleStruct_end_AsObj(toks) == Ret(Append(toks, ObjEnd), Ok)

SerializeTupleStruct_end(toks) == Ret(Append(toks, SeqEnd), Ok)

SerializeMap_end(toks) == Ret(Append(toks, ObjEnd), Ok)

SerializeStruct_end(toks) == Ret(Append(toks, ObjEnd), Ok)

\* SerializeStruct::serialize_field: the key goes through serialize_str
SerializeStruct_serialize_field(toks, key) == serialize_str(toks, key)

SerializeTupleVariant_serialize_field(toks) ==
    Ret(toks, Unsupported("Enum Tuple Variant"))

SerializeTupleVariant_end(toks) == Ret(toks, Unsupported("Enum Tuple Variant"))

SerializeStructVariant_serialize_field(toks) ==
    Ret(toks, Unsupported("Enum Struct Variant"))

SerializeStructVariant_end(toks) == Ret(toks, Unsupported("Enum Struct Variant"))

(***************************************************************************)
(* The walk.  todo is the rest of the calls the Serialize impls of the     *)
(* value will make, innermost first.                                       *)
(***************************************************************************)
\* value.serialize(&mut **self): serialize_element, serialize_key,
\* serialize_value and the value half of serialize_field only delegate
Ser(v) == [op |-> "serialize", v |-> v]
FieldCall(f) == [op |-> "field", fkey |-> f.fkey, v |-> f.val]
VariantFieldCall(op, v) == [op |-> op, v |-> v]
EndCall(op) == [op |-> op]

RECURSIVE KeyValueCalls(_)
KeyValueCalls(entries) ==
    IF entries = <<>> THEN <<>>
    ELSE <<Ser(Head(entries).mkey), Ser(Head(entries).val)>>
         \o KeyValueCalls(Tail(entries))

\* the calls a compound value makes once its serialize_* call has returned
Calls(v) ==
    CASE v.shape = "seq" ->
           [i \in 1..Len(v.elems) |-> Ser(v.elems[i])] \o <<EndCall("seq_end")>>
      [] v.shape = "tuple" ->
           [i \in 1..Len(v.elems) |-> Ser(v.elems[i])] \o <<EndCall("tuple_end")>>
      [] v.shape = "tuple_struct" ->
           [i \in 1..Len(v.elems) |-> Ser(v.elems[i])]
           \o <<EndCall("tuple_struct_end")>>
      [] v.shape = "tuple_variant" ->
           [i \in 1..Len(v.elems) |-> VariantFieldCall("tuple_variant_field", v.elems[i])]
           \o <<EndCall("tuple_variant_end")>>
      [] v.shape = "map" -> KeyValueCalls(v.entries) \o <<EndCall("map_end")>>
      [] v.shape = "struct" ->
           [i \in 1..Len(v.fields) |-> FieldCall(v.fields[i])]
           \o <<EndCall("struct_end")>>
      [] v.shape = "struct_variant" ->
           [i \in 1..Len(v.fields) |->
               VariantFieldCall("struct_variant_field", v.fields[i].val)]
           \o <<EndCall("struct_variant_end")>>

VARIABLES
    value,      \* the value being encoded
    maybe_key,  \* the explicit root key, if any
    pc,         \* the line of _to_writer reached
    todo,       \* the calls of the walk still to come
    tokens,     \* serializer.tokens
    walked,     \* serializer.tokens as value.serialize() left them
    vdf,        \* the Vdf built from the tokens
    writer,     \* what has been written to the writer
    result      \* what _to_writer returns

vars == <<value, maybe_key, pc, todo, tokens, walked, vdf, writer, result>>

\* Serializer::new() and the first call, value.serialize(&mut serializer)
Init ==
    /\ value \in Values
    /\ maybe_key \in Keys
    /\ pc = "serialize"
    /\ todo = <<Ser(value)>>
    /\ tokens = <<>>
    /\ walked = <<>>
    /\ vdf = NoVdf
    /\ writer = <<>>
    /\ result = Pending

\* a call of the walk returns r; cont are the calls it leaves to be made
Return(r, cont) ==
    /\ tokens' = r.tokens
    /\ IF r.res # Ok
       THEN /\ pc' = "done"
            /\ todo' = <<>>
            /\ result' = r.res
            /\ walked' = walked
       ELSE /\ todo' = cont \o Tail(todo)
            /\ result' = result
            /\ pc' = IF todo' = <<>> THEN "override" ELSE "serialize"
            /\ walked' = IF todo' = <<>> THEN r.tokens ELSE walked
    /\ UNCHANGED <<value, maybe_key, vdf, writer>>

Calling(shape) ==
    /\ pc = "serialize"
    /\ todo # <<>>
    /\ Head(todo).op = "serialize"
    /\ Head(todo).v.shape = shape

Ending(op) ==
    /\ pc = "serialize"
    /\ todo # <<>>
    /\ Head(todo).op = op

Arg == Head(todo).v

SerializeI8 == Calling("i8") /\ Return(serialize_i8(tokens, Arg.n), <<>>)
SerializeI32 == Calling("i32") /\ Return(serialize_i32(tokens, Arg.n), <<>>)
SerializeChar == Calling("char") /\ Return(serialize_char(tokens, Arg.s), <<>>)
SerializeStr == Calling("str") /\ Return(serialize_str(tokens, Arg.s), <<>>)
SerializeBool == Calling("bool") /\ Return(serialize_bool(tokens, Arg.b), <<>>)
SerializeF32 == Calling("f32") /\ Return(serialize_f32(tokens, Arg.f), <<>>)
SerializeF64 == Calling("f64") /\ Return(serialize_f64(tokens, Arg.f), <<>>)
SerializeBytes == Calling("bytes") /\ Return(serialize_bytes(tokens), <<>>)
SerializeNone == Calling("none") /\ Return(serialize_none(tokens), <<>>)
SerializeSome == Calling("some") /\ Return(Ret(tokens, Ok), <<Ser(Arg.inner)>>)
SerializeUnit == Calling("unit") /\ Return(serialize_unit(tokens), <<>>)
SerializeUnitStruct ==
    Calling("unit_struct") /\ Return(serialize_unit_struct(tokens), <<>>)
SerializeUnitVariant ==
    Calling("unit_variant") /\ Return(serialize_unit_variant(tokens, Arg.s), <<>>)
SerializeNewtypeStruct ==
    Calling("newtype_struct") /\ Return(Ret(tokens, Ok), <<Ser(Arg.inner)>>)
SerializeNewtypeVariant ==
    Calling("newtype_variant") /\ Return(serialize_newtype_variant(tokens), <<>>)
SerializeSeq == Calling("seq") /\ Return(serialize_seq(tokens), Calls(Arg))
SerializeTuple == Calling("tuple") /\ Return(serialize_tuple(tokens), Calls(Arg))
SerializeTupleStruct ==
    Calling("tuple_struct") /\ Return(serialize_tuple_struct(tokens), Calls(Arg))
SerializeTupleVariant ==
    Calling("tuple_variant") /\ Return(serialize_tuple_variant(tokens), Calls(Arg))
SerializeMap == Calling("map") /\ Return(serialize_map(tokens), Calls(Arg))
SerializeStruct ==
    Calling("struct") /\ Return(serialize_struct(tokens, Arg.name), Calls(Arg))
SerializeStructVariant ==
    Calling("struct_variant") /\ Return(serialize_struct_variant(tokens), Calls(Arg))

SerializeSeqEnd == Ending("seq_end") /\ Return(SerializeSeq_end(tokens), <<>>)
SerializeTupleEnd == Ending("tuple_end") /\ Return(SerializeTuple_end(tokens), <<>>)
SerializeTupleStructEnd ==
    Ending("tuple_struct_end") /\ Return(SerializeTupleStruct_end(tokens), <<>>)
SerializeMapEnd == Ending("map_end") /\ Return(SerializeMap_end(tokens), <<>>)
SerializeStructEnd == Ending("struct_end") /\ Return(SerializeStruct_end(tokens), <<>>)
SerializeStructField ==
    /\ Ending("field")
    /\ Return(SerializeStruct_serialize_field(tokens, Head(todo).fkey), <<Ser(Arg)>>)
SerializeTupleVariantField ==
    /\ Ending("tuple_variant_field")
    /\ Return(SerializeTupleVariant_serialize_field(tokens), <<>>)
SerializeTupleVariantEnd ==
    Ending("tuple_variant_end") /\ Return(SerializeTupleVariant_end(tokens), <<>>)
SerializeStructVariantField ==
    /\ Ending("struct_variant_field")
    /\ Return(SerializeStructVariant_serialize_field(tokens), <<>>)
SerializeStructVariantEnd ==
    Ending("struct_variant_end") /\ Return(SerializeStructVariant_end(tokens), <<>>)

(***************************************************************************)
(* _to_writer after the walk: the root key override, the conversion to a   *)
(* Vdf and the write.                                                      *)
(***************************************************************************)
\* the override without its insert arm
RootKeyOverride_NoInsert(toks, key) ==
    IF ~key.some THEN toks
    ELSE IF toks = <<>> THEN toks
    ELSE IF toks[1].t = "Str" THEN [toks EXCEPT ![1] = Str(key.s)]
    ELSE toks

\* the override replacing the first token whatever it is
RootKeyOverride_AlwaysReplace(toks, key) ==
    IF ~key.some THEN toks
    ELSE IF toks = <<>> THEN toks
    ELSE [toks EXCEPT ![1] = Str(key.s)]

\* the override pushing an empty key when there is none
RootKeyOverride_EmptyKey(toks, key) ==
    IF toks = <<>> THEN toks
    ELSE IF toks[1].t = "Str"
    THEN (IF key.some THEN [toks EXCEPT ![1] = Str(key.s)] ELSE toks)
    ELSE <<Str(key.s)>> \o toks

\* if let Some(key) = maybe_key { match serializer.tokens.first() { .. } }
RootKeyOverride(toks, key) ==
    IF ~key.some THEN toks
    ELSE IF toks = <<>> THEN toks
    ELSE IF toks[1].t = "Str" THEN [toks EXCEPT ![1] = Str(key.s)]
    ELSE <<Str(key.s)>> \o toks

ToWriterOverride ==
    /\ pc = "override"
    /\ tokens' = RootKeyOverride(tokens, maybe_key)
    /\ pc' = "try_from"
    /\ UNCHANGED <<value, maybe_key, todo, walked, vdf, writer, result>>

\* the conversion with its write moved before the `?`
ToWriterTryFrom_WriteFirst ==
    /\ pc = "try_from"
    /\ LET b == Build(tokens)
       IN  /\ writer' = Append(writer, b.vdf)
           /\ vdf' = b.vdf
           /\ pc' = "done"
           /\ result' = IF b.err # "" THEN InvalidTokenStream(b.err) ELSE Ok
    /\ UNCHANGED <<value, maybe_key, todo, tokens, walked>>

\* the conversion with its error dropped: try_from(..).unwrap_or_default()
ToWriterTryFrom_ErrDropped ==
    /\ pc = "try_from"
    /\ vdf' = IF Build(tokens).err # "" THEN Vdf("", Scalar("")) ELSE Build(tokens).vdf
    /\ pc' = "write"
    /\ UNCHANGED <<value, maybe_key, todo, tokens, walked, writer, result>>

\* let vdf = Vdf::try_from(&serializer.tokens)?;
ToWriterTryFrom ==
    /\ pc = "try_from"
    /\ LET b == Build(tokens)
       IN  IF b.err # ""
           THEN /\ result' = InvalidTokenStream(b.err)
                /\ pc' = "done"
                /\ vdf' = vdf
           ELSE /\ vdf' = b.vdf
                /\ pc' = "write"
                /\ result' = result
    /\ UNCHANGED <<value, maybe_key, todo, tokens, walked, writer>>

\* write!(writer, "{vdf}")?; Ok(())
ToWriterWrite ==
    /\ pc = "write"
    /\ writer' = Append(writer, vdf)
    /\ result' = Ok
    /\ pc' = "done"
    /\ UNCHANGED <<value, maybe_key, todo, tokens, walked, vdf>>

Walk ==
    \/ SerializeI8 \/ SerializeI32 \/ SerializeChar \/ SerializeStr
    \/ SerializeBool \/ SerializeF32 \/ SerializeF64 \/ SerializeBytes
    \/ SerializeNone \/ SerializeSome \/ SerializeUnit \/ SerializeUnitStruct
    \/ SerializeUnitVariant \/ SerializeNewtypeStruct \/ SerializeNewtypeVariant
    \/ SerializeSeq \/ SerializeTuple \/ SerializeTupleStruct
    \/ SerializeTupleVariant \/ SerializeMap \/ SerializeStruct
    \/ SerializeStructVariant
    \/ SerializeSeqEnd \/ SerializeTupleEnd \/ SerializeTupleStructEnd
    \/ SerializeMapEnd \/ SerializeStructEnd \/ SerializeStructField
    \/ SerializeTupleVariantField \/ SerializeTupleVariantEnd
    \/ SerializeStructVariantField \/ SerializeStructVariantEnd

Next == Walk \/ ToWriterOverride \/ ToWriterTryFrom \/ ToWriterWrite

Spec == Init /\ [][Next]_vars

TypeOK ==
    /\ pc \in {"serialize", "override", "try_from", "write", "done"}
    /\ result.kind \in {"Pending", "Ok", "Unsupported", "NonFiniteFloat",
                        "InvalidTokenStream"}

(***************************************************************************)
(* The Builder on its own: Vdf::try_from applied to every token stream of  *)
(* at most MaxTokens tokens.                                               *)
(***************************************************************************)
MaxTokens == 5

Alphabet == {Str("k"), Str("x"), ObjBegin, ObjEnd, SeqBegin, SeqEnd, Null}

InitBuild ==
    /\ tokens \in Tup(Alphabet, 0, MaxTokens)
    /\ walked = tokens
    /\ value = None
    /\ maybe_key = NoKey
    /\ pc = "try_from"
    /\ todo = <<>>
    /\ vdf = NoVdf
    /\ writer = <<>>
    /\ result = Pending

NextBuild == ToWriterTryFrom \/ ToWriterWrite

BuildSpec == InitBuild /\ [][NextBuild]_vars

(***************************************************************************)
(* Properties of the encoder.                                              *)
(***************************************************************************)
Done == pc = "done"
Succeeded == pc = "done" /\ result = Ok
\* the token stream has been through the override step
Overridden ==
    \/ pc \in {"try_from", "write"}
    \/ pc = "done" /\ result.kind \in {"Ok", "InvalidTokenStream"}

IsInt(v) == v.shape \in {"i8", "i32"}

\* C1 (as claimed): encoding a top-level integer n with an explicit root
\* key K succeeds and writes the document (K, Scalar(decimal text of n)).
C1_IntWithKeyEncodes ==
    (Done /\ maybe_key.some /\ IsInt(value))
        => /\ result = Ok
           /\ writer = <<Vdf(maybe_key.s, Scalar(IntText(value.n)))>>

\* C2 (as claimed): with an explicit key K the overridden stream begins
\* with Str(K), and it got there in one of the two ways the claim names:
\* a leading Str was replaced in place, or the stream was empty and Str(K)
\* was inserted.
C2_ReplaceOrInsertIntoEmpty ==
    (Overridden /\ maybe_key.some)
        => /\ tokens # <<>>
           /\ tokens[1] = Str(maybe_key.s)
           /\ \/ /\ walked # <<>>
                 /\ walked[1].t = "Str"
                 /\ tokens = [walked EXCEPT ![1] = Str(maybe_key.s)]
              \/ /\ walked = <<>>
                 /\ tokens = <<Str(maybe_key.s)>>

\* C2 (amended): with an explicit key K the overridden stream begins with
\* Str(K): a leading Str is replaced in place, and before any other leading
\* token Str(K) is inserted at the front; the walk never leaves the stream
\* empty.
C2_OverrideBeginsWithKey ==
    (Overridden /\ maybe_key.some)
        => /\ walked # <<>>
           /\ tokens # <<>>
           /\ tokens[1] = Str(maybe_key.s)
           /\ IF walked[1].t = "Str"
              THEN tokens = [walked EXCEPT ![1] = Str(maybe_key.s)]
              ELSE tokens = <<Str(maybe_key.s)>> \o walked

C2_Witness ==
    /\ pc = "try_from"
    /\ maybe_key = SomeKey("k")
    /\ walked = <<SeqBegin, Str("x"), Str("y"), SeqEnd>>
    /\ tokens = <<Str("k"), SeqBegin, Str("x"), Str("y"), SeqEnd>>

\* C4: a failed encode has written nothing, and whatever is written is the
\* Vdf of a finished walk whose whole token stream passed the Builder.
C4_NoPartialResult ==
    /\ (Done /\ result # Ok) => writer = <<>>
    /\ pc \in {"serialize", "override", "try_from", "write"} => writer = <<>>
    /\ writer # <<>> => /\ todo = <<>>
                        /\ vdf.built
                        /\ Build(tokens) = BuildOk(vdf)
                        /\ writer = <<vdf>>

C4_Witness ==
    /\ Done
    /\ result = InvalidTokenStream("ExpectedNonSeqVal")
    /\ Len(tokens) > 3
    /\ writer = <<>>

BoolText(b) == IF b THEN "1" ELSE "0"

\* C6: a top-level struct of boolean and integer fields, encoded without a
\* key, gives the document (struct name, Group) with one entry per field in
\* declaration order: a boolean as "1" / "0", an integer as its decimal text.
C6_StructOfScalars ==
    (Done /\ ~maybe_key.some /\ value.shape = "struct"
          /\ \A i \in 1..Len(value.fields) :
                 value.fields[i].val.shape \in {"bool", "i8", "i32"})
        => /\ result = Ok
           /\ writer =
                <<Vdf(value.name,
                      Group([i \in 1..Len(value.fields) |->
                               KV(value.fields[i].fkey,
                                  Scalar(IF value.fields[i].val.shape = "bool"
                                         THEN BoolText(value.fields[i].val.b)
                                         ELSE IntText(value.fields[i].val.n)))]))>>

C6_Witness ==
    /\ Done
    /\ maybe_key = NoKey
    /\ value = Struct("root", <<Field("a", I32(1)), Field("b", Bool(TRUE))>>)
    /\ writer = <<Vdf("root", Group(<<KV("a", Scalar("1")), KV("b", Scalar("1"))>>))>>

(***************************************************************************)
(* The parts of a host value.                                              *)
(***************************************************************************)
Range(f) == {f[i] : i \in DOMAIN f}

Children(v) ==
    CASE v.shape \in {"some", "newtype_struct", "newtype_variant"} -> {v.inner}
      [] v.shape \in {"seq", "tuple", "tuple_struct", "tuple_variant"} -> Range(v.elems)
      [] v.shape = "map" ->
           {e.mkey : e \in Range(v.entries)} \cup {e.val : e \in Range(v.entries)}
      [] v.shape \in {"struct", "struct_variant"} -> {f.val : f \in Range(v.fields)}
      [] OTHER -> {}

RECURSIVE Parts(_)
Parts(v) == {v} \cup UNION {Parts(c) : c \in Children(v)}

RefusedShapes ==
    {"bytes", "unit", "unit_struct", "newtype_variant", "tuple_variant", "struct_variant"}

RefusedName(shape) ==
    CASE shape = "bytes" -> "Bytes"
      [] shape = "unit" -> "Unit Type"
      [] shape = "unit_struct" -> "Unit Struct"
      [] shape = "newtype_variant" -> "Enum Newtype Variant"
      [] shape = "tuple_variant" -> "Enum Tuple Variant"
      [] shape = "struct_variant" -> "Enum Struct Variant"

HasRefused(v) == \E p \in Parts(v) : p.shape \in RefusedShapes

RefusedNames(v) == {RefusedName(p.shape) : p \in {q \in Parts(v) : q.shape \in RefusedShapes}}

HasNonFinite(v) ==
    \E p \in Parts(v) : p.shape \in {"f32", "f64"} /\ ~is_finite(NarrowToF32(p.f))

\* C5 (as claimed): a value that holds a refused shape anywhere makes the
\* encode return the Unsupported error of such a shape.
C5_RefusedGivesUnsupported ==
    (Done /\ HasRefused(value))
        => /\ result.kind = "Unsupported"
           /\ result.what \in RefusedNames(value)

\* C5 (amended): a value that holds a refused shape anywhere never encodes
\* and nothing is written; the error is the Unsupported error of a refused
\* shape the value holds, unless the walk met a non-finite float first, and
\* then it is the non-finite-float error.
C5_RefusedNeverEncodes ==
    (Done /\ HasRefused(value))
        => /\ writer = <<>>
           /\ result.kind \in {"Unsupported", "NonFiniteFloat"}
           /\ result.kind = "Unsupported" => result.what \in RefusedNames(value)
           /\ result.kind = "NonFiniteFloat" => HasNonFinite(value)
           /\ ~HasNonFinite(value) => result.kind = "Unsupported"

C5_Witness ==
    /\ Done
    /\ value = Struct("root", Fields(<<Inner(<<HStr("x"), Bytes>>)>>))
    /\ Len(tokens) > 4
    /\ result = Unsupported("Bytes")

(***************************************************************************)
(* Nested sequences.                                                       *)
(***************************************************************************)
SeqShapes == {"seq", "tuple", "tuple_struct"}

\* the value a present optional or a newtype struct stands for
RECURSIVE Unwrap(_)
Unwrap(v) == IF v.shape \in {"some", "newtype_struct"} THEN Unwrap(v.inner) ELSE v

HasNestedSeq(v) ==
    \E p \in Parts(v) :
        /\ p.shape \in SeqShapes
        /\ \E e \in Range(p.elems) : Unwrap(e).shape \in SeqShapes

\* the regions open after each token: "S" for a Seq, "O" for an object;
\* "bad" once an End closes a region of the other kind or none
RECURSIVE OpenAfter(_, _, _)
OpenAfter(toks, i, open) ==
    IF i > Len(toks) THEN open
    ELSE LET t == toks[i].t
         IN  IF t = "SeqBegin" THEN OpenAfter(toks, i + 1, Append(open, "S"))
             ELSE IF t = "ObjBegin" THEN OpenAfter(toks, i + 1, Append(open, "O"))
             ELSE IF t \in {"SeqEnd", "ObjEnd"}
             THEN IF open # <<>> /\ open[Len(open)] = (IF t = "SeqEnd" THEN "S" ELSE "O")
                  THEN OpenAfter(toks, i + 1, SubSeq(open, 1, Len(open) - 1))
                  ELSE <<"bad">>
             ELSE OpenAfter(toks, i + 1, open)

Balanced(toks) == OpenAfter(toks, 1, <<>>) = <<>>

\* the positions of the SeqBegins that are direct elements of a Seq region
NestedSeqAt(toks) ==
    { i \in 1..Len(toks) :
        /\ toks[i].t = "SeqBegin"
        /\ LET open == OpenAfter(SubSeq(toks, 1, i - 1), 1, <<>>)
           IN  open # <<>> /\ open[Len(open)] = "S" }

Min(S) == CHOOSE m \in S : \A n \in S : m <= n

\* C7 (as claimed): encoding a value that has a sequence directly as an
\* element of a sequence fails with ExpectedNonSeqVal.
C7_NestedSeqGivesNonSeqVal ==
    (Done /\ HasNestedSeq(value)) => result = InvalidTokenStream("ExpectedNonSeqVal")

\* C7 (amended): a value that has a sequence directly as an element of a
\* sequence never encodes, and a token stream fails with ExpectedNonSeqVal
\* when the Builder gets as far as its first nested SeqBegin (everything
\* before it is a stream that only ends too early, inside that Seq).
C7_NestedSeqRejected ==
    /\ (Done /\ HasNestedSeq(value)) => (result # Ok /\ writer = <<>>)
    /\ (Done /\ result.kind \in {"Ok", "InvalidTokenStream"} /\ NestedSeqAt(tokens) # {})
         => LET p == Min(NestedSeqAt(tokens))
            IN  /\ result # Ok
                /\ Build(SubSeq(tokens, 1, p - 1)).err = "EofWhileParsingSeq"
                     => result = InvalidTokenStream("ExpectedNonSeqVal")

C7_Witness ==
    /\ Done
    /\ value = SeqV(<<SeqV(<<>>)>>)
    /\ tokens = <<Str("k"), SeqBegin, SeqBegin, SeqEnd, SeqEnd>>
    /\ result = InvalidTokenStream("ExpectedNonSeqVal")

(***************************************************************************)
(* The document a value stands for, read off the value itself.             *)
(***************************************************************************)
ScalarShapes == {"i8", "i32", "bool", "char", "str", "f32", "f64", "unit_variant"}

TextOf(v) ==
    CASE v.shape \in {"i8", "i32"} -> IntText(v.n)
      [] v.shape = "bool" -> BoolText(v.b)
      [] v.shape \in {"char", "str", "unit_variant"} -> v.s
      [] v.shape = "f32" -> FloatText(v.f)
      [] v.shape = "f64" -> FloatText(NarrowToF32(v.f))

RECURSIVE Flat(_)
Flat(ss) == IF ss = <<>> THEN <<>> ELSE Head(ss) \o Flat(Tail(ss))

RECURSIVE EntriesOf(_, _), GroupOf(_), ValueOf(_)

\* the Value of a scalar, a struct or a map
ValueOf(v) ==
    LET u == Unwrap(v)
    IN  IF u.shape \in ScalarShapes THEN Scalar(TextOf(u)) ELSE Group(GroupOf(u))

\* the entries a struct or a map has, in order
GroupOf(u) ==
    IF u.shape = "struct"
    THEN Flat([i \in 1..Len(u.fields) |-> EntriesOf(u.fields[i].fkey, u.fields[i].val)])
    ELSE Flat([i \in 1..Len(u.entries) |->
                 EntriesOf(TextOf(Unwrap(u.entries[i].mkey)), u.entries[i].val)])

\* the entries the value bound to key gives its group: none for an absent
\* optional, one per element for a sequence, else one
EntriesOf(key, v) ==
    LET u == Unwrap(v)
    IN  IF u.shape = "none" THEN <<>>
        ELSE IF u.shape \in SeqShapes
        THEN [i \in 1..Len(u.elems) |-> KV(key, ValueOf(u.elems[i]))]
        ELSE <<KV(key, ValueOf(u))>>

RootKeyOf(v) == IF maybe_key.some THEN maybe_key.s ELSE Unwrap(v).name

\* C8: every struct-rooted value that encodes gives the Group its fields
\* stand for: a sequence of n elements under key K is n consecutive entries
\* keyed K, in element order, at K's place among the other entries, none of
\* which is dropped, doubled or moved.
C8_SeqExpansion ==
    (Succeeded /\ Unwrap(value).shape = "struct")
        => writer = <<Vdf(RootKeyOf(value), Group(GroupOf(Unwrap(value))))>>

C8_Witness ==
    /\ Succeeded
    /\ value = Struct("root", Fields(<<I32(1), SeqV(<<HStr("x"), HStr("y")>>),
                                       SeqV(<<Inner(<<HStr("x")>>)>>)>>))
    /\ writer[1].value =
         Group(<<KV("a", Scalar("1")), KV("b", Scalar("x")), KV("b", Scalar("y")),
                 KV("c", Group(<<KV("a", Scalar("x"))>>))>>)

\* C9: a root key directly followed by a sequence of strings builds: the
\* stream [Str(K), SeqBegin, Str(x1) .. Str(xn), SeqEnd] gives a Group of n
\* entries keyed K with the values x1 .. xn in order.
C9_RootSeqBuilds ==
    (Done /\ maybe_key.some /\ value.shape = "seq"
          /\ \A e \in Range(value.elems) : e.shape = "str")
        => /\ tokens = <<Str(maybe_key.s), SeqBegin>>
                       \o [i \in 1..Len(value.elems) |-> Str(value.elems[i].s)]
                       \o <<SeqEnd>>
           /\ result = Ok
           /\ writer = <<Vdf(maybe_key.s,
                             Group([i \in 1..Len(value.elems) |->
                                      KV(maybe_key.s, Scalar(value.elems[i].s))]))>>

C9_Witness ==
    /\ Done
    /\ tokens = <<Str("k"), SeqBegin, Str("x"), Str("y"), SeqEnd>>
    /\ result = Ok
    /\ writer = <<Vdf("k", Group(<<KV("k", Scalar("x")), KV("k", Scalar("y"))>>))>>

(***************************************************************************)
(* The Builder is total.                                                   *)
(***************************************************************************)
RECURSIVE ValidValue(_)
ValidValue(v) ==
    \/ v.kind = "Scalar" /\ DOMAIN v = {"kind", "s"}
    \/ /\ v.kind = "Group"
       /\ DOMAIN v = {"kind", "entries"}
       /\ \A e \in Range(v.entries) : DOMAIN e = {"key", "value"} /\ ValidValue(e.value)

ValidDoc(d) == d.built /\ DOMAIN d = {"built", "key", "value"} /\ ValidValue(d.value)

DecodeError == [shape |-> "decode_error"]

\* the integers and floats a text may stand for
IntDomain == (0 - 128)..127
FloatDomain ==
    {Canon(Fin(m, 0 - 1)) : m \in (0 - 8)..8} \cup {Fin(1, 24), Fin(16777217, 0)}

ParseInt(shape, s) ==
    IF \E n \in IntDomain : IntText(n) = s
    THEN [shape |-> shape, n |-> CHOOSE n \in IntDomain : IntText(n) = s]
    ELSE DecodeError

ParseFloat(shape, s) ==
    IF \E f \in FloatDomain : FloatText(f) = s
    THEN [shape |-> shape, f |-> CHOOSE f \in FloatDomain : FloatText(f) = s]
    ELSE DecodeError

ParseBool(s) ==
    IF s = "1" THEN Bool(TRUE) ELSE IF s = "0" THEN Bool(FALSE) ELSE DecodeError

ParseScalar(s, t) ==
    CASE t.shape \in {"i8", "i32"} -> ParseInt(t.shape, s)
      [] t.shape = "bool" -> ParseBool(s)
      [] t.shape \in {"f32", "f64"} -> ParseFloat(t.shape, s)
      [] t.shape \in {"char", "str", "unit_variant"} -> [shape |-> t.shape, s |-> s]

Matching(entries, key) == SelectSeq(entries, LAMBDA e : e.key = key)

\* the keys of a group, each once, in the order of their first entry
RECURSIVE KeysOf(_, _)
KeysOf(entries, seen) ==
    IF entries = <<>> THEN <<>>
    ELSE IF Head(entries).key \in seen THEN KeysOf(Tail(entries), seen)
    ELSE <<Head(entries).key>> \o KeysOf(Tail(entries), seen \cup {Head(entries).key})

RECURSIVE DecodeValue(_, _), DecodeField(_, _, _), DecodeMap(_, _)

\* one Value read as the type of t
DecodeValue(ast, t) ==
    CASE t.shape = "some" -> Some(DecodeValue(ast, t.inner))
      [] t.shape = "newtype_struct" -> NewtypeStruct(DecodeValue(ast, t.inner))
      [] t.shape \in ScalarShapes ->
           IF ast.kind = "Scalar" THEN ParseScalar(ast.s, t) ELSE DecodeError
      [] t.shape = "struct" ->
           IF ast.kind # "Group" THEN DecodeError
           ELSE Struct(t.name,
                       [i \in 1..Len(t.fields) |->
                          Field(t.fields[i].fkey,
                                DecodeField(ast.entries, t.fields[i].fkey,
                                            t.fields[i].val))])
      [] t.shape = "map" ->
           IF ast.kind # "Group" THEN DecodeError ELSE DecodeMap(ast.entries, t)
      [] OTHER -> DecodeError

\* a map: one entry per key of the group
DecodeMap(entries, t) ==
    LET keys == KeysOf(entries, {})
        typed(k) == {i \in 1..Len(t.entries) : TextOf(Unwrap(t.entries[i].mkey)) = k}
    IN  IF \E j \in 1..Len(keys) : typed(keys[j]) = {} THEN DecodeError
        ELSE Map([j \in 1..Len(keys) |->
                    LET e == t.entries[CHOOSE i \in typed(keys[j]) : TRUE]
                    IN  Entry(DecodeValue(Scalar(keys[j]), e.mkey),
                              DecodeField(entries, keys[j], e.val))])

\* the field key of a group read as the type of t: a sequence takes all the
\* entries keyed key, an optional is absent when there is none, anything
\* else takes the first and is missing when there is none
DecodeField(entries, key, t) ==
    LET m == Matching(entries, key)
    IN  CASE t.shape = "newtype_struct" ->
               NewtypeStruct(DecodeField(entries, key, t.inner))
          [] t.shape = "some" ->
               IF m = <<>> THEN None ELSE Some(DecodeField(entries, key, t.inner))
          [] t.shape = "none" -> IF m = <<>> THEN None ELSE DecodeError
          [] t.shape \in SeqShapes ->
               IF m = <<>> \/ Len(m) # Len(t.elems) THEN DecodeError
               ELSE [shape |-> t.shape,
                     elems |-> [i \in 1..Len(m) |-> DecodeValue(m[i].value, t.elems[i])]]
          [] OTHER -> IF m = <<>> THEN DecodeError ELSE DecodeValue(m[1].value, t)

from_str(doc, t) == DecodeValue(doc.value, t)

\* the value with its 64-bit floats narrowed to 32-bit precision
RECURSIVE Narrowed(_)
Narrowed(v) ==
    CASE v.shape = "f64" -> F64(NarrowToF32(v.f))
      [] v.shape = "f32" -> F32(Canon(v.f))
      [] v.shape \in {"some", "newtype_struct"} ->
           [shape |-> v.shape, inner |-> Narrowed(v.inner)]
      [] v.shape \in SeqShapes ->
           [shape |-> v.shape, elems |-> [i \in 1..Len(v.elems) |-> Narrowed(v.elems[i])]]
      [] v.shape = "map" ->
           Map([i \in 1..Len(v.entries) |->
                  Entry(Narrowed(v.entries[i].mkey), Narrowed(v.entries[i].val))])
      [] v.shape = "struct" ->
           Struct(v.name, [i \in 1..Len(v.fields) |->
                             Field(v.fields[i].fkey, Narrowed(v.fields[i].val))])
      [] OTHER -> v

\* no non-finite float, no bytes, no enum variant with a payload
Eligible(v) ==
    /\ ~HasNonFinite(v)
    /\ \A p \in Parts(v) :
           p.shape \notin {"bytes", "newtype_variant", "tuple_variant", "struct_variant"}

\* no empty sequence, and no absent optional but as the value of a struct
\* field
Plain(v) ==
    \A p \in Parts(v) :
        /\ p.shape \in SeqShapes => p.elems # <<>>
        /\ p.shape \in {"some", "newtype_struct"} => Unwrap(p).shape # "none"
        /\ p.shape = "map" => \A e \in Range(p.entries) : Unwrap(e.val).shape # "none"

\* C3 (as claimed): every eligible value that encodes decodes to itself,
\* its floats narrowed to 32 bits.
C3_RoundTrip ==
    (Succeeded /\ ~maybe_key.some /\ Eligible(value))
        => from_str(writer[1], value) = Narrowed(value)

\* C3 (amended): every eligible value that encodes and holds no empty
\* sequence, and no absent optional but as the value of a struct field,
\* decodes to itself, its floats narrowed to 32 bits.
C3_RoundTripPlain ==
    (Succeeded /\ ~maybe_key.some /\ Eligible(value) /\ Plain(value))
        => from_str(writer[1], value) = Narrowed(value)

C3_Witness ==
    /\ Succeeded
    /\ maybe_key = NoKey
    /\ value = Struct("root", Fields(<<F64(Fin(16777217, 0)), None>>))
    /\ writer = <<Vdf("root", Group(<<KV("a", Scalar("16777216"))>>))>>
    /\ from_str(writer[1], value) = Struct("root", Fields(<<F64(Fin(1, 24)), None>>))


(***************************************************************************)
(* Streams that end too early.                                             *)
(***************************************************************************)
\* the Ends that close the regions still open, innermost first
RECURSIVE Closers(_)
Closers(open) ==
    IF open = <<>> THEN <<>>
    ELSE <<IF open[Len(open)] = "S" THEN SeqEnd ELSE ObjEnd>>
         \o Closers(SubSeq(open, 1, Len(open) - 1))

\* the shortest ways on from toks: close what is open, after a value or
\* after a key and a value if one is due
Completions(toks) ==
    LET open == OpenAfter(toks, 1, <<>>)
    IN  IF open = <<"bad">> THEN {}
        ELSE { pre \o Closers(open) :
                 pre \in {<<>>, <<Str("v")>>, <<Str("k"), Str("v")>>} } \ {<<>>}

\* toks is a proper prefix of a stream that builds
Premature(toks) == \E c \in Completions(toks) : Build(toks \o c).err = ""

\* the EOF error of the place where toks stops: the root key, a Seq, the
\* value of a key, or a Group between its entries
EofContext(toks) ==
    LET open == OpenAfter(toks, 1, <<>>)
    IN  IF toks = <<>> THEN "EofWhileParsingKey"
        ELSE IF open = <<>> THEN "EofWhileParsingVal"
        ELSE IF open[Len(open)] = "S" THEN "EofWhileParsingSeq"
        ELSE IF Build(toks \o Closers(open)).err = "" THEN "EofWhileParsingObj"
        ELSE "EofWhileParsingVal"

\* C11: a token stream that stops before it is complete fails with the EOF
\* error of the place where it stops and builds nothing: EofWhileParsingKey
\* for the empty stream, EofWhileParsingVal after a key, EofWhileParsingObj
\* in a Group between entries, EofWhileParsingSeq in a Seq.
C11_EofClassified ==
    /\ (Done /\ Premature(tokens))
         => /\ result.kind = "InvalidTokenStream"
            /\ result.ctx = EofContext(tokens)
            /\ vdf = NoVdf /\ writer = <<>>
    /\ (Done /\ tokens = <<>>) => result.ctx = "EofWhileParsingKey"
    /\ (Done /\ tokens = <<Str("k")>>) => result.ctx = "EofWhileParsingVal"
    /\ (Done /\ tokens = <<Str("k"), ObjBegin>>) => result.ctx = "EofWhileParsingObj"
    /\ (Done /\ tokens = <<Str("k"), SeqBegin>>) => result.ctx = "EofWhileParsingSeq"

C11_Witness ==
    /\ Done
    /\ tokens = <<Str("k"), ObjBegin, Str("x"), SeqBegin, SeqEnd>>
    /\ Premature(tokens)
    /\ result = InvalidTokenStream("EofWhileParsingObj")


(***************************************************************************)
(* Tokens after the document.                                              *)
(***************************************************************************)
Prefix(toks, n) == SubSeq(toks, 1, n)

\* the lengths of the proper prefixes of toks that are whole documents
CompleteAt(toks) == {n \in 1..(Len(toks) - 1) : Build(Prefix(toks, n)).err = ""}

EofContexts ==
    {"EofWhileParsingKey", "EofWhileParsingVal", "EofWhileParsingSeq", "EofWhileParsingObj"}

\* C12: a stream that goes on after its root key and the one value region
\* of that key are complete fails with TrailingTokens and builds nothing; a
\* stream that builds has no token left over: every proper prefix of it
\* stops too early.
C12_ConsumedExactlyOnce ==
    /\ (Done /\ CompleteAt(tokens) # {})
         => /\ result.kind = "InvalidTokenStream"
            /\ result.ctx = "TrailingTokens"
            /\ vdf = NoVdf /\ writer = <<>>
    /\ Succeeded
         => /\ CompleteAt(tokens) = {}
            /\ \A n \in 0..(Len(tokens) - 1) : Build(Prefix(tokens, n)).err \in EofContexts
    /\ (Done /\ result = InvalidTokenStream("TrailingTokens")) => CompleteAt(tokens) # {}

C12_Witness ==
    /\ Done
    /\ tokens = <<Str("k"), Str("x"), Str("x")>>
    /\ CompleteAt(tokens) = {2}
    /\ result = InvalidTokenStream("TrailingTokens")
    /\ writer = <<>>


(***************************************************************************)
(* Map keys.                                                               *)
(***************************************************************************)
\* the walk returned Ok: value.serialize(&mut serializer)? went through
WalkOk == pc \in {"override", "try_from", "write"} \/ (Done /\ walked # <<>>)

\* a scalar the Serializer turns into one Str
OneStr(v) ==
    /\ Unwrap(v).shape \in ScalarShapes
    /\ Unwrap(v).shape \in {"f32", "f64"} => is_finite(NarrowToF32(Unwrap(v).f))

\* a key that serializes, to something else than one Str
BadKey(k) == Unwrap(k).shape \in SeqShapes \cup {"map", "struct", "none"}

HasBadKey(v) ==
    \E p \in Parts(v) : p.shape = "map" /\ \E e \in Range(p.entries) : BadKey(e.mkey)

\* a map of scalars under scalar keys
FlatMap(v) ==
    /\ v.shape = "map"
    /\ \A e \in Range(v.entries) : OneStr(e.mkey) /\ OneStr(e.val)

OneEntryPerKey(v) ==
    [i \in 1..Len(v.entries) |->
        KV(TextOf(Unwrap(v.entries[i].mkey)), Scalar(TextOf(Unwrap(v.entries[i].val))))]

\* C13 (as claimed): with a key that is a sequence, a map, a struct or an
\* absent optional the walk succeeds and the Builder fails; a map whose keys
\* are one Str each encodes to one entry per key, in iteration order.
C13_BadKeyStructural ==
    /\ (Done /\ HasBadKey(value)) => (WalkOk /\ result.kind = "InvalidTokenStream")
    /\ (Succeeded /\ value.shape = "map" /\ \A e \in Range(value.entries) : OneStr(e.mkey))
         => /\ Len(writer[1].value.entries) = Len(value.entries)
            /\ \A i \in 1..Len(value.entries) :
                 writer[1].value.entries[i].key = TextOf(Unwrap(value.entries[i].mkey))

\* C13 (amended): a value with such a key in a map anywhere never encodes
\* and nothing is written; the error is a structural error of the Builder
\* whenever the walk succeeds.  A map of scalars under keys that are one Str
\* each, given a root key, encodes to one entry per key in iteration order;
\* whatever its values, a map that encodes gives each key, in iteration
\* order, the entries of its value.
C13_BadKeyNeverEncodes ==
    /\ (Done /\ HasBadKey(value))
         => /\ result # Ok /\ writer = <<>>
            /\ WalkOk => result.kind = "InvalidTokenStream" /\ result.ctx \in TokenContext
            /\ ~WalkOk => (HasRefused(value) \/ HasNonFinite(value))
    /\ (Done /\ FlatMap(value) /\ maybe_key.some)
         => /\ result = Ok
            /\ writer = <<Vdf(maybe_key.s, Group(OneEntryPerKey(value)))>>
    /\ (Succeeded /\ Unwrap(value).shape = "map")
         => writer = <<Vdf(maybe_key.s, Group(GroupOf(Unwrap(value))))>>

C13_Witness ==
    /\ Done
    /\ value = Map(<<Entry(HStr("k"), I32(1)), Entry(None, HStr("x"))>>)
    /\ maybe_key = SomeKey("k")
    /\ walked = <<ObjBegin, Str("k"), Str("1"), Null, Str("x"), ObjEnd>>
    /\ result = InvalidTokenStream("ExpectedSomeVal")


(***************************************************************************)
(* Floats.                                                                 *)
(***************************************************************************)
\* the walk is about to serialize a float
AtFloat == pc = "serialize" /\ todo # <<>> /\ Head(todo).op = "serialize"
           /\ Head(todo).v.shape \in {"f32", "f64"}

\* the f32 that reaches serialize_f32
AsF32(v) == IF v.shape = "f64" THEN NarrowToF32(v.f) ELSE v.f

\* a finite value of magnitude 2^F32MaxExp or more
TooLargeForF32(f) ==
    f.cls = "finite" /\ f.m # 0 /\ BitLen(Abs(f.m)) + f.e > F32MaxExp

\* C14: serializing a float appends one Str, the text of the float as an
\* f32, iff that f32 is finite; otherwise it fails with NonFiniteFloat of
\* that f32 and the stream is unchanged.  A finite f64 too large for an f32
\* is rejected; 16777217 as an f64 is emitted as 16777216.
C14_FloatContract ==
    /\ [][AtFloat =>
            LET f == AsF32(Head(todo).v)
            IN  /\ (f.cls = "finite") <=>
                      (Len(tokens') = Len(tokens) + 1 /\ result' = Pending)
                /\ f.cls = "finite" => tokens' = Append(tokens, Str(FloatText(f)))
                /\ f.cls # "finite" =>
                      (tokens' = tokens /\ result' = NonFiniteFloat(f) /\ pc' = "done")
                /\ (Head(todo).v.shape = "f64" /\ TooLargeForF32(Head(todo).v.f))
                      => result'.kind = "NonFiniteFloat"
                /\ Head(todo).v = F64(Fin(16777217, 0))
                      => tokens' = Append(tokens, Str("16777216"))]_vars

C14_Witness ==
    /\ Done
    /\ value = SeqV(<<F64(Fin(16777217, 0)), F64(Fin(1, 128))>>)
    /\ tokens = <<SeqBegin, Str("16777216")>>
    /\ result = NonFiniteFloat(Inf)


(***************************************************************************)
(* The implicit root key.                                                  *)
(***************************************************************************)
StructNames == {p.name : p \in {q \in Parts(value) : q.shape = "struct"}}

\* where the names of the structs of the value stand in toks
NameAt(toks) == {i \in 1..Len(toks) : toks[i].t = "Str" /\ toks[i].s \in StructNames}

\* the walk is at the root of the value, below present optionals and
\* newtype structs only
AtRoot == Len(todo) = 1 /\ Head(todo).v = Unwrap(value)

\* C15: serialize_struct pushes Str(name) iff the stream is empty, which it
\* is for the struct at the root of the value only; a struct that is a
\* field, an element, a map key or a map value pushes ObjBegin alone.  In
\* the stream of a walk the name of a struct stands nowhere but first, at
\* most once, with ObjBegin next to it.
C15_ImplicitRootKey ==
    /\ [][Calling("struct") =>
            /\ tokens = <<>> => tokens' = <<Str(Arg.name), ObjBegin>>
            /\ tokens # <<>> => tokens' = Append(tokens, ObjBegin)
            /\ (tokens = <<>>) <=> AtRoot]_vars
    /\ []((pc \in {"serialize", "override"})
            => /\ NameAt(tokens) \subseteq {1}
               /\ NameAt(tokens) = {1} => (Len(tokens) >= 2 /\ tokens[2] = ObjBegin))
    /\ [](NameAt(walked) \subseteq {1})

C15_Witness ==
    /\ pc = "serialize"
    /\ value = Struct("root", Fields(<<I32(1), Inner(<<SeqV(<<HStr("x")>>)>>)>>))
    /\ tokens = <<Str("root"), ObjBegin, Str("a"), Str("1"), Str("b"), ObjBegin>>


(***************************************************************************)
(* Nesting of the token stream.                                            *)
(***************************************************************************)
SeqEnds == {"seq_end", "tuple_end", "tuple_struct_end"}
ObjEnds == {"map_end", "struct_end"}

\* the regions the calls still to come will close, first to close first
RECURSIVE ToClose(_)
ToClose(calls) ==
    IF calls = <<>> THEN <<>>
    ELSE (IF Head(calls).op \in SeqEnds THEN <<"S">>
          ELSE IF Head(calls).op \in ObjEnds THEN <<"O">>
          ELSE <<>>) \o ToClose(Tail(calls))

Reverse(s) == [i \in 1..Len(s) |-> s[Len(s) + 1 - i]]

\* C16: at every point of the walk no End of the stream is without the
\* Begin of its kind, and the regions left open are those the walk is
\* still to close, each by the End of its own kind: SeqEnd for a sequence,
\* tuple or tuple struct, ObjEnd for a map or struct.  The stream of a walk
\* that completed is balanced.
C16_StackBalanced ==
    /\ pc = "serialize" =>
         /\ OpenAfter(tokens, 1, <<>>) # <<"bad">>
         /\ OpenAfter(tokens, 1, <<>>) = Reverse(ToClose(todo))
    /\ OpenAfter(tokens, 1, <<>>) # <<"bad">>
    /\ pc = "override" => Balanced(tokens)
    /\ WalkOk => (walked # <<>> /\ Balanced(walked) /\ Balanced(tokens))

C16_Witness ==
    /\ pc = "serialize"
    /\ value = Struct("root", Fields(<<I32(1), SeqV(<<HStr("x"), HStr("y")>>),
                                       SeqV(<<Inner(<<HStr("x")>>)>>)>>))
    /\ tokens = <<Str("root"), ObjBegin, Str("a"), Str("1"),
                  Str("b"), SeqBegin, Str("x"), Str("y"), SeqEnd,
                  Str("c"), SeqBegin, ObjBegin, Str("a"), Str("x"), ObjEnd>>
    /\ ToClose(todo) = <<"S", "O">>


(***************************************************************************)
(* Absent optionals.                                                       *)
(***************************************************************************)
RECURSIVE CountNone(_), CountNoneIn(_)

\* the absent optionals of a value, each occurrence counted
CountNone(v) ==
    CASE v.shape = "none" -> 1
      [] v.shape \in {"some", "newtype_struct"} -> CountNone(v.inner)
      [] v.shape \in SeqShapes -> CountNoneIn(v.elems)
      [] v.shape = "map" ->
           CountNoneIn([i \in 1..Len(v.entries) |-> v.entries[i].mkey])
           + CountNoneIn([i \in 1..Len(v.entries) |-> v.entries[i].val])
      [] v.shape = "struct" ->
           CountNoneIn([i \in 1..Len(v.fields) |-> v.fields[i].val])
      [] OTHER -> 0

CountNoneIn(vs) ==
    IF vs = <<>> THEN 0 ELSE CountNone(Head(vs)) + CountNoneIn(Tail(vs))

NullAt(toks) == {i \in 1..Len(toks) : toks[i] = Null}

\* the Null at i is the value of a key of a Group
Tolerated(toks, i) ==
    /\ Build(Prefix(toks, i - 1)).err = "EofWhileParsingVal"
    /\ OpenAfter(Prefix(toks, i - 1), 1, <<>>) # <<>>

\* toks without its Nulls that follow a Str, and without that Str
RECURSIVE Strip(_)
Strip(toks) ==
    IF toks = <<>> THEN <<>>
    ELSE IF Len(toks) >= 2 /\ toks[1].t = "Str" /\ toks[2] = Null
    THEN Strip(SubSeq(toks, 3, Len(toks)))
    ELSE <<Head(toks)>> \o Strip(Tail(toks))

\* C17: a walk that completes leaves one Null per absent optional of the
\* value.  A stream with a Null anywhere but as the value of a key of a
\* Group does not build; a Null that is the value of a key K of a Group
\* leaves nothing of K: the stream builds what it builds without its
\* (Str(K), Null) pairs, or fails as that stream fails.
C17_NullNeverInAst ==
    /\ WalkOk => Cardinality(NullAt(walked)) = CountNone(value)
    /\ (Done /\ WalkOk /\ \E i \in NullAt(tokens) : ~Tolerated(tokens, i))
         => (result.kind = "InvalidTokenStream" /\ writer = <<>>)
    /\ (Done /\ WalkOk /\ \A i \in NullAt(tokens) : Tolerated(tokens, i))
         => /\ NullAt(Strip(tokens)) = {}
            /\ Build(Strip(tokens)).err = ""
                 => (result = Ok /\ writer = <<Build(Strip(tokens)).vdf>>)
            /\ Build(Strip(tokens)).err # ""
                 => result = InvalidTokenStream(Build(Strip(tokens)).err)

C17_Witness ==
    /\ Succeeded
    /\ value = Struct("root", Fields(<<I32(1), None, I32(1)>>))
    /\ tokens = <<Str("root"), ObjBegin, Str("a"), Str("1"), Str("b"), Null,
                  Str("c"), Str("1"), ObjEnd>>
    /\ writer = <<Vdf("root", Group(<<KV("a", Scalar("1")), KV("c", Scalar("1"))>>))>>


(***************************************************************************)
(* Encoding without a root key.                                            *)
(***************************************************************************)
Root == Unwrap(value)

\* the top-level value is a scalar, an absent optional, a sequence or a map
KeylessRoot ==
    /\ ~maybe_key.some
    /\ Root.shape \in ScalarShapes \cup SeqShapes \cup {"none", "map"}

\* C18 (as claimed): without a key, a scalar, an absent optional, a
\* sequence or a map at the top fails with a structural error; only a
\* struct at the top can succeed.
C18_KeylessFailsStructural ==
    /\ (Done /\ KeylessRoot) => result.kind = "InvalidTokenStream"
    /\ (Succeeded /\ ~maybe_key.some) => Root.shape = "struct"

\* C18 (amended): without a key, a scalar, an absent optional, a sequence
\* or a map at the top never encodes and nothing is written.  When the walk
\* succeeds the stream does not begin with a key and its value region, and
\* the Builder fails: EofWhileParsingVal for a scalar, taken for a key with
\* no value, and ExpectedSomeVal for the others.  Without a key only a
\* struct at the top succeeds, its name being the first token.
C18_KeylessNeverEncodes ==
    /\ (Done /\ KeylessRoot)
         => /\ result # Ok /\ writer = <<>>
            /\ WalkOk =>
                 /\ tokens = walked
                 /\ Len(tokens) = 1 \/ tokens[1].t # "Str"
                 /\ result = InvalidTokenStream(IF Root.shape \in ScalarShapes
                                                THEN "EofWhileParsingVal"
                                                ELSE "ExpectedSomeVal")
            /\ ~WalkOk => (HasRefused(value) \/ HasNonFinite(value))
    /\ (Succeeded /\ ~maybe_key.some)
         => /\ Root.shape = "struct"
            /\ tokens[1] = Str(Root.name)
            /\ writer[1].key = Root.name

C18_Witness ==
    /\ Done
    /\ maybe_key = NoKey
    /\ value = Some(SeqV(<<HStr("x"), HStr("y")>>))
    /\ tokens = <<SeqBegin, Str("x"), Str("y"), SeqEnd>>
    /\ result = InvalidTokenStream("ExpectedSomeVal")


(***************************************************************************)
(* What may change the token stream.                                       *)
(***************************************************************************)
IsPrefix(s, t) == Len(s) <= Len(t) /\ Prefix(t, Len(s)) = s

\* the shapes whose serialize_* only hands on to the contained value
Delegating == todo # <<>> /\ Head(todo).op = "serialize"
              /\ Head(todo).v.shape \in {"some", "newtype_struct"}

\* C19: a step of the walk leaves the stream as it is - when it fails and
\* when it only delegates - or appends to it.  The override leaves the
\* stream as it is when there is no key, puts the key in place of a first
\* Str and before any other first token, and touches no other token.
\* Nothing changes the stream after the override: without a key the Builder
\* gets the stream of the walk.
C19_AppendOnly ==
    /\ [][pc = "serialize" =>
            /\ IsPrefix(tokens, tokens')
            /\ result' # Pending => tokens' = tokens
            /\ Delegating => tokens' = tokens]_vars
    /\ [][pc = "override" =>
            /\ ~maybe_key.some => tokens' = tokens
            /\ (maybe_key.some /\ tokens[1].t = "Str") =>
                 /\ Len(tokens') = Len(tokens)
                 /\ tokens'[1] = Str(maybe_key.s)
                 /\ Tail(tokens') = Tail(tokens)
            /\ (maybe_key.some /\ tokens[1].t # "Str") =>
                 /\ Len(tokens') = Len(tokens) + 1
                 /\ tokens'[1] = Str(maybe_key.s)
                 /\ Tail(tokens') = tokens]_vars
    /\ [][(pc \in {"try_from", "write", "done"}) => tokens' = tokens]_vars
    /\ []((WalkOk /\ pc # "override" /\ ~maybe_key.some) => tokens = walked)

C19_Witness ==
    /\ pc = "try_from"
    /\ maybe_key = SomeKey("k")
    /\ walked = <<SeqBegin, Str("x"), Str("y"), SeqEnd>>
    /\ tokens = <<Str("k"), SeqBegin, Str("x"), Str("y"), SeqEnd>>

==============================================================================
